---- MODULE Spec2Model ----
(***************************************************************************)
(* Pointer-driven geometry editing of annotorious-plugin-tools:            *)
(*   - the rubber-band ellipse drawing tool   (src/unnamed/part_000)       *)
(*   - the polyline editor                    (src/src/line/LineEditor.svelte) *)
(* Each component is a state machine over its script variables; one action *)
(* per DOM event handler.  EllipseSpec runs the ellipse tool, LineSpec the *)
(* line editor.                                                            *)
(*                                                                         *)
(* Conventions.                                                            *)
(*   - JavaScript `undefined` is the empty tuple; an optional number n is  *)
(*     <<n>>, an optional point is the point itself <<px, py>>.            *)
(*   - Array indices are kept 0-based as in the source; element idx of a   *)
(*     JavaScript array is element idx + 1 of the TLA+ sequence.           *)
(*   - Coordinates are integers (whole image pixels).  Wherever the source *)
(*     halves a number the model keeps twice the value (names ending in 2),*)
(*     so no rounding is introduced.  IEEE rounding is not modelled.       *)
(*   - ev and dispatched are history variables: the last event handled     *)
(*     (and the branch its handler took) and what that handler dispatched. *)
(*     shapeBy records which statement last wrote the ellipse box.         *)
(***************************************************************************)
EXTENDS Integers, Sequences, FiniteSets, TLC

VARIABLES
  \* ---- shared: the clock (performance.now()), props, history
  now, transform, ev, dispatched,
  \* ---- ellipse tool
  drawingMode, origin, anchor, x, y, w, h,
  isShiftPressed, isCtrlPressed, lastPointerDown, lastMoveEvent, shapeBy,
  \* ---- line editor
  points, bounds, viewportScale, isTouch,
  visibleMidpoint, isHandleHovered, lastHandleClick, selectedCorners

sharedVars  == <<now, transform, ev, dispatched>>
ellipseVars == <<drawingMode, origin, anchor, x, y, w, h,
                 isShiftPressed, isCtrlPressed, lastPointerDown, lastMoveEvent, shapeBy>>
lineVars    == <<points, bounds, viewportScale, isTouch,
                 visibleMidpoint, isHandleHovered, lastHandleClick, selectedCorners>>
vars        == <<sharedVars, ellipseVars, lineVars>>

(***************************************************************************)
(* Bounds of the model.                                                    *)
(***************************************************************************)
\* performance.now() when the component is mounted (positive: the page has run)
StartMs == 1
\* how many times the clock may advance in one behaviour
MaxTicks == 1
\* pointer positions of the ellipse tool, element coordinates
EllipseXs == {0, 2, 10}
EllipseYs == {0, 8}
\* translations the transform prop may apply (element -> image)
TransformOffsets == {1}
\* the line editor: most corners a line may have, where its corners may lie,
\* and by how much a drag moves them
MaxPoints == 3
LineGrid == {<<0, 16>>, <<16, 8>>, <<32, 0>>}
Deltas == {<<16, -8>>, <<-16, 8>>}
\* pointer positions of the line editor, element coordinates
PointerPositions ==
  {<<-1, 15>>, <<15, 7>>, <<23, 3>>, <<799, -1>>, <<-1001, 15>>, <<1999, -1>>}
\* the insertion of points alone: most corners, and where the first corners lie
MaxInsertPoints == 4
InsertGrid == {0, 16, 32} \X {0, 16}
\* viewport scales of the line editor
ViewportScales == {1, 2}

(***************************************************************************)
(* Helpers.                                                                *)
(***************************************************************************)
Undefined == <<>>

Abs(n) == IF n < 0 THEN -n ELSE n

Max(a, b) == IF a > b THEN a ELSE b

Min(a, b) == IF a < b THEN a ELSE b

\* transform.elementToImage(offsetX, offsetY): the prop is a function of the
\* host; here a translation by the amount `transform`.
elementToImage(off) == <<off[1] + transform, off[2] + transform>>

(***************************************************************************)
(*                       The ellipse rubber-band tool                      *)
(***************************************************************************)
\* literals of onPointerUp and stopDrawing
ClickTime == 300
DragArea == 100
MinArea == 15

Offsets == EllipseXs \X EllipseYs

Keys == {"Shift", "Control", "Escape"}

\* Faulty variant of timeDifferenceOver: the limit itself already counts as over.
timeDifferenceOver_atLeast(limit) ==
  /\ lastPointerDown # Undefined
  /\ now - lastPointerDown[1] >= limit

\* timeDifference > limit, where timeDifference = performance.now() - lastPointerDown
\* is NaN (and every comparison false) while lastPointerDown is unset.
timeDifferenceOver(limit) ==
  /\ lastPointerDown # Undefined
  /\ now - lastPointerDown[1] > limit

\* Faulty variant of shapeBox: the Control branch forgets to move the corner
\* back by half the size, so the box hangs from the origin.
shapeBox_notCentred(o, a, shift, ctrl) ==
  LET k == IF ctrl THEN 2 ELSE 1
      mw == k * Abs(a[1] - o[1])
      mh == k * Abs(a[2] - o[2])
      bw == IF shift THEN Max(mw, mh) ELSE mw
      bh == IF shift THEN bw ELSE mh
  IN  [x |-> Min(a[1], o[1]), y |-> Min(a[2], o[2]), w |-> bw, h |-> bh]

\* Faulty variant of shapeBox: with Shift the smaller extent is taken.
shapeBox_smaller(o, a, shift, ctrl) ==
  LET k == IF ctrl THEN 2 ELSE 1
      mw == k * Abs(a[1] - o[1])
      mh == k * Abs(a[2] - o[2])
      bw == IF shift THEN Min(mw, mh) ELSE mw
      bh == IF shift THEN bw ELSE mh
  IN  [x |-> IF ctrl THEN Min(a[1], o[1] - bw \div 2) ELSE Min(a[1], o[1]),
       y |-> IF ctrl THEN Min(a[2], o[2] - bh \div 2) ELSE Min(a[2], o[2]),
       w |-> bw, h |-> bh]

\* The box updateShape computes from origin o and anchor a (lines 53-71).
\* In the Control branch w is twice an integer, so w / 2 is exact.
shapeBox(o, a, shift, ctrl) ==
  IF ctrl
  THEN LET mw == 2 * Abs(a[1] - o[1])
           mh == 2 * Abs(a[2] - o[2])
           bw == IF shift THEN Max(mw, mh) ELSE mw
           bh == IF shift THEN bw ELSE mh
       IN  [x |-> Min(a[1], o[1] - bw \div 2),
            y |-> Min(a[2], o[2] - bh \div 2),
            w |-> bw, h |-> bh]
  ELSE LET mw == Abs(a[1] - o[1])
           mh == Abs(a[2] - o[2])
           bw == IF shift THEN Max(mw, mh) ELSE mw
           bh == IF shift THEN bw ELSE mh
       IN  [x |-> Min(a[1], o[1]),
            y |-> Min(a[2], o[2]),
            w |-> bw, h |-> bh]

\* The Ellipse stopDrawing builds.  cx2, cy2, rx2, ry2 are twice cx, cy, rx, ry.
EllipseShape(bx, by, bw, bh) ==
  [type |-> "ELLIPSE",
   bounds |-> [minX |-> bx, minY |-> by, maxX |-> bx + bw, maxY |-> by + bh],
   cx2 |-> 2 * bx + bw, cy2 |-> 2 * by + bh, rx2 |-> bw, ry2 |-> bh]

\* "Start drawing": lines 37-43 and 104-110.
startDrawing(off) ==
  LET o == elementToImage(off)
  IN  /\ origin' = o
      /\ anchor' = o
      /\ x' = o[1]
      /\ y' = o[2]
      /\ w' = 1
      /\ h' = 1
      /\ shapeBy' = [op |-> "start", shift |-> isShiftPressed, ctrl |-> isCtrlPressed]

onPointerDown(off) ==
  /\ lastPointerDown' = <<now>>
  /\ IF drawingMode = "drag"
     THEN startDrawing(off)
     ELSE UNCHANGED <<origin, anchor, x, y, w, h, shapeBy>>
  /\ ev' = [type |-> "pointerdown", branch |-> drawingMode]
  /\ dispatched' = Undefined
  /\ UNCHANGED <<isShiftPressed, isCtrlPressed, lastMoveEvent>>

\* updateShape reads evt!.offsetX of an undefined evt: a TypeError, and the
\* handler ends at line 51 with nothing assigned.
updateShapeThrows(maybeEvent) ==
  /\ origin # Undefined
  /\ maybeEvent = Undefined
  /\ lastMoveEvent = Undefined

\* updateShape(maybeEvent); it reads the modifier flags as its caller left them.
updateShape(maybeEvent) ==
  LET evt == IF maybeEvent # Undefined THEN maybeEvent ELSE lastMoveEvent
  IN  /\ UNCHANGED origin
      /\ IF updateShapeThrows(maybeEvent)
         THEN UNCHANGED <<anchor, x, y, w, h, shapeBy, lastMoveEvent>>
         ELSE /\ IF origin # Undefined
                 THEN LET a == elementToImage(evt)
                          b == shapeBox(origin, a, isShiftPressed', isCtrlPressed')
                      IN  /\ anchor' = a
                          /\ x' = b.x
                          /\ y' = b.y
                          /\ w' = b.w
                          /\ h' = b.h
                          /\ shapeBy' = [op |-> "updateShape",
                                         shift |-> isShiftPressed',
                                         ctrl |-> isCtrlPressed']
                 ELSE UNCHANGED <<anchor, x, y, w, h, shapeBy>>
              /\ lastMoveEvent' = IF maybeEvent # Undefined THEN maybeEvent
                                                            ELSE lastMoveEvent

onPointerMove(off) ==
  /\ UNCHANGED <<isShiftPressed, isCtrlPressed>>
  /\ updateShape(off)
  /\ ev' = [type |-> "pointermove", branch |-> "ok"]
  /\ dispatched' = Undefined
  /\ UNCHANGED lastPointerDown

\* Faulty variant of releaseStops: both conditions are required.
releaseStops_both == timeDifferenceOver(ClickTime) /\ w * h > DragArea

\* line 113: a pointerup in 'drag' mode ends the drawing rather than cancelling it
releaseStops == timeDifferenceOver(ClickTime) \/ w * h > DragArea

stopDrawing ==
  /\ dispatched' = IF w * h > MinArea THEN <<EllipseShape(x, y, w, h)>> ELSE Undefined
  /\ origin' = Undefined
  /\ anchor' = Undefined
  /\ lastMoveEvent' = Undefined
  /\ UNCHANGED <<x, y, w, h, shapeBy>>

onPointerUp(off) ==
  /\ UNCHANGED <<isShiftPressed, isCtrlPressed, lastPointerDown>>
  /\ IF drawingMode = "click"
     THEN IF timeDifferenceOver(ClickTime)
          THEN /\ UNCHANGED <<origin, anchor, x, y, w, h, shapeBy, lastMoveEvent>>
               /\ dispatched' = Undefined
               /\ ev' = [type |-> "pointerup", branch |-> "ignored"]
          ELSE IF origin # Undefined
               THEN /\ stopDrawing
                    /\ ev' = [type |-> "pointerup", branch |-> "stop"]
               ELSE /\ startDrawing(off)
                    /\ UNCHANGED lastMoveEvent
                    /\ dispatched' = Undefined
                    /\ ev' = [type |-> "pointerup", branch |-> "start"]
     ELSE IF origin # Undefined
          THEN IF releaseStops
               THEN /\ stopDrawing
                    /\ ev' = [type |-> "pointerup", branch |-> "stop"]
               ELSE /\ origin' = Undefined
                    /\ anchor' = Undefined
                    /\ lastMoveEvent' = Undefined
                    /\ UNCHANGED <<x, y, w, h, shapeBy>>
                    /\ dispatched' = Undefined
                    /\ ev' = [type |-> "pointerup", branch |-> "cancel"]
          ELSE /\ UNCHANGED <<origin, anchor, x, y, w, h, shapeBy, lastMoveEvent>>
               /\ dispatched' = Undefined
               /\ ev' = [type |-> "pointerup", branch |-> "idle"]

\* onKeyDown / onKeyUp: the flag is written first, then updateShape() runs.
onKey(key, pressed, type) ==
  /\ isShiftPressed' = IF key = "Shift" THEN pressed ELSE isShiftPressed
  /\ isCtrlPressed' = IF key = "Control" THEN pressed ELSE isCtrlPressed
  /\ IF key \in {"Shift", "Control"}
     THEN /\ updateShape(Undefined)
          /\ ev' = [type |-> type,
                    branch |-> IF updateShapeThrows(Undefined) THEN "threw" ELSE "ok"]
     ELSE /\ UNCHANGED <<origin, anchor, x, y, w, h, shapeBy, lastMoveEvent>>
          /\ ev' = [type |-> type, branch |-> "other"]
  /\ dispatched' = Undefined
  /\ UNCHANGED lastPointerDown

onKeyDown(key) == onKey(key, TRUE, "keydown")

onKeyUp(key) == onKey(key, FALSE, "keyup")

\* ---- the events of the ellipse tool
EllipseFrame == UNCHANGED <<now, transform, drawingMode, lineVars>>

PointerDown == \E off \in Offsets : onPointerDown(off) /\ EllipseFrame

PointerMove == \E off \in Offsets : onPointerMove(off) /\ EllipseFrame

PointerUp == \E off \in Offsets : onPointerUp(off) /\ EllipseFrame

KeyDown == \E key \in Keys : onKeyDown(key) /\ EllipseFrame

KeyUp == \E key \in Keys : onKeyUp(key) /\ EllipseFrame

\* time passes: by exactly the click time, or by one millisecond more
EllipseTick ==
  /\ \E d \in {ClickTime, ClickTime + 1} :
       /\ now + d <= StartMs + MaxTicks * (ClickTime + 1)
       /\ now' = now + d
  /\ ev' = [type |-> "tick", branch |-> "ok"]
  /\ dispatched' = Undefined
  /\ UNCHANGED <<transform, ellipseVars, lineVars>>

LineIdle ==
  /\ points = <<>>
  /\ bounds = Undefined
  /\ viewportScale = 1
  /\ isTouch = FALSE
  /\ visibleMidpoint = Undefined
  /\ isHandleHovered = FALSE
  /\ lastHandleClick = Undefined
  /\ selectedCorners = <<>>

EllipseInit ==
  /\ now = StartMs
  /\ transform \in TransformOffsets
  /\ ev = [type |-> "mount", branch |-> "ok"]
  /\ dispatched = Undefined
  /\ drawingMode \in {"drag", "click"}
  /\ origin = Undefined
  /\ anchor = Undefined
  /\ x = Undefined
  /\ y = Undefined
  /\ w = Undefined
  /\ h = Undefined
  /\ isShiftPressed = FALSE
  /\ isCtrlPressed = FALSE
  /\ lastPointerDown = Undefined
  /\ lastMoveEvent = Undefined
  /\ shapeBy = [op |-> "none", shift |-> FALSE, ctrl |-> FALSE]
  /\ LineIdle

EllipseNext ==
  \/ PointerDown
  \/ PointerMove
  \/ PointerUp
  \/ KeyDown
  \/ KeyUp
  \/ EllipseTick

EllipseSpec == EllipseInit /\ [][EllipseNext]_vars

(***************************************************************************)
(*                            The line editor                              *)
(***************************************************************************)
CLICK_THRESHOLD == 250
MIN_HOVER_DISTANCE == 1000
MIN_CORNER_DISTANCE == 12

\* Array.prototype.includes / indexOf-free helpers on sequences
Range(s) == {s[i] : i \in DOMAIN s}

includes(s, e) == e \in Range(s)

\* Array.prototype.filter(i => i !== idx)
without(s, idx) == SelectSeq(s, LAMBDA i : i # idx)

SetMin(S) == CHOOSE m \in S : \A n \in S : m <= n

SetMax(S) == CHOOSE m \in S : \A n \in S : m >= n

\* boundsFromPoints of @annotorious/annotorious: the bounding box of the points
boundsFromPoints(pts) ==
  [minX |-> SetMin({pts[i][1] : i \in DOMAIN pts}),
   minY |-> SetMin({pts[i][2] : i \in DOMAIN pts}),
   maxX |-> SetMax({pts[i][1] : i \in DOMAIN pts}),
   maxY |-> SetMax({pts[i][2] : i \in DOMAIN pts})]

\* One entry of the reactive `midpoints` list, for the segment from thisCorner to
\* nextCorner.  point2 is twice the midpoint [x, y].  dist is the distance from
\* nextCorner to the midpoint (lines 47-48); dist > MIN_CORNER_DISTANCE /
\* viewportScale is compared squared and scaled by 4 * viewportScale^2.
midpoint(thisCorner, nextCorner) ==
  LET x2 == thisCorner[1] + nextCorner[1]
      y2 == thisCorner[2] + nextCorner[2]
      dist2Sq == (2 * nextCorner[1] - x2) * (2 * nextCorner[1] - x2)
               + (2 * nextCorner[2] - y2) * (2 * nextCorner[2] - y2)
  IN  [point2 |-> <<x2, y2>>,
       visible |-> dist2Sq * viewportScale * viewportScale
                     > 4 * MIN_CORNER_DISTANCE * MIN_CORNER_DISTANCE]

\* Faulty variant of midpointsOf: the isTouch test is missing.
midpointsOf_anyDevice(pts) ==
  [i \in 1..(Len(pts) - 1) |-> midpoint(pts[i], pts[i + 1])]

\* $: midpoints (lines 40-54); midpoints[i + 1] is the midpoint of segment i
midpointsOf(pts) ==
  IF isTouch THEN <<>>
  ELSE [i \in 1..(Len(pts) - 1) |-> midpoint(pts[i], pts[i + 1])]

midpoints == midpointsOf(points)

\* 4 * getDistSq(pt) for a point given doubled, pointer at p
getDist2Sq(pt2, p) ==
  (pt2[1] - 2 * p[1]) * (pt2[1] - 2 * p[1]) + (pt2[2] - 2 * p[2]) * (pt2[2] - 2 * p[2])

double(pt) == <<2 * pt[1], 2 * pt[2]>>

\* Faulty variant of closestIndex: of several elements at the least distance the
\* last one wins.
closestIndex_last(pts2, p) ==
  SetMax({i \in DOMAIN pts2 :
            \A j \in DOMAIN pts2 : getDist2Sq(pts2[i], p) <= getDist2Sq(pts2[j], p)})

\* reduce((closest, c) => getDistSq(c) < getDistSq(closest) ? c : closest):
\* the first element at the least distance
closestIndex(pts2, p) ==
  SetMin({i \in DOMAIN pts2 :
            \A j \in DOMAIN pts2 : getDist2Sq(pts2[i], p) <= getDist2Sq(pts2[j], p)})

\* what onPointerMove leaves in visibleMidpoint (lines 62-91), pointer at image point p
hoveredMidpoint(p) ==
  IF Len(selectedCorners) > 0 \/ ~(\E i \in DOMAIN midpoints : midpoints[i].visible)
  THEN Undefined
  ELSE LET corners2 == [i \in DOMAIN points |-> double(points[i])]
           closestCorner2 == corners2[closestIndex(corners2, p)]
           visibleIdx == SelectSeq([i \in DOMAIN midpoints |-> i],
                                   LAMBDA i : midpoints[i].visible)
           visible2 == [k \in DOMAIN visibleIdx |-> midpoints[visibleIdx[k]].point2]
           closestVisible == visibleIdx[closestIndex(visible2, p)]
           \* 4 * threshold * viewportScale^2
           shouldShow ==
             \/ getDist2Sq(closestCorner2, p) * viewportScale * viewportScale
                  < 4 * MIN_HOVER_DISTANCE * MIN_HOVER_DISTANCE
             \/ getDist2Sq(midpoints[closestVisible].point2, p) * viewportScale * viewportScale
                  < 4 * MIN_HOVER_DISTANCE * MIN_HOVER_DISTANCE
       IN  IF shouldShow THEN <<closestVisible - 1>> ELSE Undefined

\* svgEl 'pointermove': the listener is registered by onMount unless isTouch
onLinePointerMove(off) ==
  /\ IF isTouch
     THEN /\ UNCHANGED visibleMidpoint
          /\ ev' = [type |-> "pointermove", branch |-> "nolistener"]
     ELSE /\ visibleMidpoint' = hoveredMidpoint(elementToImage(off))
          /\ ev' = [type |-> "pointermove", branch |-> "ok"]
  /\ dispatched' = Undefined
  /\ UNCHANGED <<points, bounds, isHandleHovered, lastHandleClick, selectedCorners>>

onEnterHandle ==
  /\ isHandleHovered' = TRUE
  /\ ev' = [type |-> "pointerenter", branch |-> "ok"]
  /\ dispatched' = Undefined
  /\ UNCHANGED <<points, bounds, visibleMidpoint, lastHandleClick, selectedCorners>>

onLeaveHandle ==
  /\ isHandleHovered' = FALSE
  /\ ev' = [type |-> "pointerleave", branch |-> "ok"]
  /\ dispatched' = Undefined
  /\ UNCHANGED <<points, bounds, visibleMidpoint, lastHandleClick, selectedCorners>>

onLinePointerUp ==
  /\ selectedCorners' = <<>>
  /\ ev' = [type |-> "linepointerup", branch |-> "ok"]
  /\ dispatched' = Undefined
  /\ UNCHANGED <<points, bounds, visibleMidpoint, isHandleHovered, lastHandleClick>>

onHandlePointerDown ==
  /\ isHandleHovered' = TRUE
  /\ lastHandleClick' = <<now>>
  /\ ev' = [type |-> "handlepointerdown", branch |-> "ok"]
  /\ dispatched' = Undefined
  /\ UNCHANGED <<points, bounds, visibleMidpoint, selectedCorners>>

\* !lastHandleClick: unset, or the number 0
noHandleClick == lastHandleClick = Undefined \/ lastHandleClick = <<0>>

\* Faulty variant of isDragNotClick: the elapsed time is never looked at.
isDragNotClick_never == FALSE

\* line 128: "Drag, not click"
isDragNotClick == now - lastHandleClick[1] > CLICK_THRESHOLD

\* Faulty variant of clickSelection: a modifier click on an unselected corner
\* replaces the selection instead of extending it.
clickSelection_replace(sel, idx, modifier) ==
  IF includes(sel, idx)
  THEN IF modifier \/ Len(sel) = 1 THEN without(sel, idx) ELSE <<idx>>
  ELSE <<idx>>

\* the selection a click on corner idx leaves (lines 130-147)
clickSelection(sel, idx, modifier) ==
  LET isSelected == includes(sel, idx)
  IN  IF modifier
      THEN IF isSelected THEN without(sel, idx) ELSE Append(sel, idx)
      ELSE IF isSelected /\ Len(sel) > 1 THEN <<idx>>
           ELSE IF isSelected THEN <<>>
           ELSE <<idx>>

\* modifier: evt.metaKey || evt.ctrlKey || evt.shiftKey
onHandlePointerUp(idx, modifier) ==
  /\ IF noHandleClick \/ isTouch
     THEN /\ UNCHANGED selectedCorners
          /\ ev' = [type |-> "handlepointerup", branch |-> "return"]
     ELSE IF isDragNotClick
          THEN /\ UNCHANGED selectedCorners
               /\ ev' = [type |-> "handlepointerup", branch |-> "drag"]
          ELSE /\ selectedCorners' = clickSelection(selectedCorners, idx, modifier)
               /\ ev' = [type |-> "handlepointerup", branch |-> "click"]
  /\ dispatched' = Undefined
  /\ UNCHANGED <<points, bounds, visibleMidpoint, isHandleHovered, lastHandleClick>>

\* handle names: 'LINE' is <<"LINE">>, `HANDLE-${idx}` is <<"HANDLE", idx>>
\* (the polylines and one Handle per corner, lines 271-298)
Handles == {<<"LINE">>} \cup {<<"HANDLE", i>> : i \in 0..(Len(points) - 1)}

moved(pt, delta) == <<pt[1] + delta[1], pt[2] + delta[2]>>

\* Faulty variant of editor: the selection is not looked at.
editor_noMulti(pts, handle, delta) ==
  IF handle = <<"LINE">>
  THEN [i \in DOMAIN pts |-> moved(pts[i], delta)]
  ELSE [i \in DOMAIN pts |->
          IF handle = <<"HANDLE", i - 1>> THEN moved(pts[i], delta) ELSE pts[i]]

\* editor(line, handle, delta): the points of the shape it returns (lines 158-166)
editor(pts, handle, delta) ==
  IF Len(selectedCorners) > 1
  THEN [i \in DOMAIN pts |->
          IF includes(selectedCorners, i - 1) THEN moved(pts[i], delta) ELSE pts[i]]
  ELSE IF handle = <<"LINE">>
  THEN [i \in DOMAIN pts |-> moved(pts[i], delta)]
  ELSE [i \in DOMAIN pts |->
          IF handle = <<"HANDLE", i - 1>> THEN moved(pts[i], delta) ELSE pts[i]]

\* the host applies a dispatched 'change' to the shape prop
change(pts) ==
  /\ dispatched' = <<[points |-> pts, bounds |-> boundsFromPoints(pts)]>>
  /\ points' = pts
  /\ bounds' = boundsFromPoints(pts)

\* A drag of a grabbed handle: Editor calls editor() and forwards 'change'.
onDrag(handle, delta) ==
  /\ change(editor(points, handle, delta))
  /\ ev' = [type |-> "drag", branch |-> "ok"]
  /\ UNCHANGED <<visibleMidpoint, isHandleHovered, lastHandleClick, selectedCorners>>

\* Faulty variant of withPoint: the new point goes in front of corner
\* insertionIndex instead of behind it.
withPoint_before(pts, insertionIndex) ==
  LET p2 == midpointsOf(pts)[insertionIndex + 1].point2
  IN  SubSeq(pts, 1, insertionIndex)
        \o <<<<p2[1] \div 2, p2[2] \div 2>>>>
        \o SubSeq(pts, insertionIndex + 1, Len(pts))

\* the points onAddPoint dispatches (lines 178-182); the inserted point is
\* midpoints[insertionIndex].point, half of point2
withPoint(pts, insertionIndex) ==
  LET p2 == midpointsOf(pts)[insertionIndex + 1].point2
  IN  SubSeq(pts, 1, insertionIndex + 1)
        \o <<<<p2[1] \div 2, p2[2] \div 2>>>>
        \o SubSeq(pts, insertionIndex + 2, Len(pts))

\* the {#if} block that renders MidpointHandle (lines 300-307)
midpointHandleShown ==
  /\ visibleMidpoint # Undefined
  /\ ~isHandleHovered
  /\ visibleMidpoint[1] + 1 \in DOMAIN midpoints

\* onAddPoint(visibleMidpoint); after tick() it sends a pointerdown to the new
\* handle when the document has one (found), which runs onHandlePointerDown.
onAddPoint(found) ==
  /\ change(withPoint(points, visibleMidpoint[1]))
  /\ isHandleHovered' = (found \/ isHandleHovered)
  /\ lastHandleClick' = IF found THEN <<now>> ELSE lastHandleClick
  /\ ev' = [type |-> "addpoint", branch |-> IF found THEN "grabbed" ELSE "ok"]
  /\ UNCHANGED <<visibleMidpoint, selectedCorners>>

\* Faulty variant of remaining: the kept corners come out in reverse order.
remaining_reversed(pts, sel) ==
  LET keep == SelectSeq([i \in DOMAIN pts |-> i], LAMBDA i : ~includes(sel, i - 1))
  IN  [k \in DOMAIN keep |-> pts[keep[Len(keep) + 1 - k]]]

\* the points onDeleteSelected keeps (line 215)
remaining(pts, sel) ==
  LET keep == SelectSeq([i \in DOMAIN pts |-> i], LAMBDA i : ~includes(sel, i - 1))
  IN  [k \in DOMAIN keep |-> pts[keep[k]]]

\* Faulty variant of deleteRefused: the guard is off by one.
deleteRefused_offByOne == Len(points) - Len(selectedCorners) < 1

\* Line needs 2 points min (line 213)
deleteRefused == Len(points) - Len(selectedCorners) < 2

onDeleteSelected ==
  IF deleteRefused
  THEN /\ UNCHANGED <<points, bounds, selectedCorners>>
       /\ dispatched' = Undefined
       /\ ev' = [type |-> "keydown", branch |-> "refused"]
  ELSE /\ change(remaining(points, selectedCorners))
       /\ selectedCorners' = <<>>
       /\ ev' = [type |-> "keydown", branch |-> "deleted"]

LineKeys == {"Delete", "Backspace", "Escape"}

\* svgEl 'keydown': the listener is registered by onMount unless isTouch
onKeydown(key) ==
  /\ IF isTouch
     THEN /\ UNCHANGED <<points, bounds, selectedCorners>>
          /\ dispatched' = Undefined
          /\ ev' = [type |-> "keydown", branch |-> "nolistener"]
     ELSE IF key \in {"Delete", "Backspace"}
          THEN onDeleteSelected
          ELSE /\ UNCHANGED <<points, bounds, selectedCorners>>
               /\ dispatched' = Undefined
               /\ ev' = [type |-> "keydown", branch |-> "other"]
  /\ UNCHANGED <<visibleMidpoint, isHandleHovered, lastHandleClick>>

\* ---- the events of the line editor
LineFrame == UNCHANGED <<now, transform, viewportScale, isTouch, ellipseVars>>

inGrid(pts) == \A i \in DOMAIN pts : pts[i] \in LineGrid

\* a doubled point whose half has whole coordinates
isWhole(p2) == p2[1] % 2 = 0 /\ p2[2] % 2 = 0

\* a doubled point whose half is a corner of the grid
halfInGrid(p2) == isWhole(p2) /\ <<p2[1] \div 2, p2[2] \div 2>> \in LineGrid

LinePointerMove == \E off \in PointerPositions : onLinePointerMove(off) /\ LineFrame

EnterHandle == onEnterHandle /\ LineFrame

LeaveHandle == onLeaveHandle /\ LineFrame

LinePointerUp == onLinePointerUp /\ LineFrame

HandlePointerDown == onHandlePointerDown /\ LineFrame

HandlePointerUp ==
  \E idx \in 0..(Len(points) - 1), modifier \in BOOLEAN :
    onHandlePointerUp(idx, modifier) /\ LineFrame

Drag ==
  \E handle \in Handles, delta \in Deltas :
    /\ inGrid(editor(points, handle, delta))
    /\ onDrag(handle, delta)
    /\ LineFrame

AddPoint ==
  \E found \in BOOLEAN :
    /\ midpointHandleShown
    /\ Len(points) < MaxPoints
    /\ halfInGrid(midpoints[visibleMidpoint[1] + 1].point2)
    /\ onAddPoint(found)
    /\ LineFrame

\* the same event where corners need not stay on the grid of the drags
InsertPoint ==
  \E found \in BOOLEAN :
    /\ midpointHandleShown
    /\ Len(points) < MaxInsertPoints
    /\ isWhole(midpoints[visibleMidpoint[1] + 1].point2)
    /\ onAddPoint(found)
    /\ LineFrame

Keydown == \E key \in LineKeys : onKeydown(key) /\ LineFrame

\* time passes: by exactly the click threshold, or by one millisecond more
LineTick ==
  /\ \E d \in {CLICK_THRESHOLD, CLICK_THRESHOLD + 1} :
       /\ now + d <= StartMs + MaxTicks * (CLICK_THRESHOLD + 1)
       /\ now' = now + d
  /\ ev' = [type |-> "tick", branch |-> "ok"]
  /\ dispatched' = Undefined
  /\ UNCHANGED <<transform, ellipseVars, lineVars>>

EllipseIdle ==
  /\ drawingMode = "drag"
  /\ origin = Undefined
  /\ anchor = Undefined
  /\ x = Undefined
  /\ y = Undefined
  /\ w = Undefined
  /\ h = Undefined
  /\ isShiftPressed = FALSE
  /\ isCtrlPressed = FALSE
  /\ lastPointerDown = Undefined
  /\ lastMoveEvent = Undefined
  /\ shapeBy = [op |-> "none", shift |-> FALSE, ctrl |-> FALSE]

Lines == UNION {[1..n -> LineGrid] : n \in 2..MaxPoints}

LineInit ==
  /\ now = StartMs
  /\ transform \in TransformOffsets
  /\ ev = [type |-> "mount", branch |-> "ok"]
  /\ dispatched = Undefined
  /\ points \in Lines
  /\ bounds = boundsFromPoints(points)
  /\ viewportScale \in ViewportScales
  /\ isTouch \in BOOLEAN
  /\ visibleMidpoint = Undefined
  /\ isHandleHovered = FALSE
  /\ lastHandleClick = Undefined
  /\ selectedCorners = <<>>
  /\ EllipseIdle

LineNext ==
  \/ LinePointerMove
  \/ EnterHandle
  \/ LeaveHandle
  \/ LinePointerUp
  \/ HandlePointerDown
  \/ HandlePointerUp
  \/ Drag
  \/ AddPoint
  \/ Keydown
  \/ LineTick

LineSpec == LineInit /\ [][LineNext]_vars

(***************************************************************************)
(* The insertion of points alone: every line of 2 to MaxInsertPoints - 1   *)
(* corners on InsertGrid, with the pointer moving and the midpoint handle  *)
(* pressed.  Nothing is selected and nothing is dragged, so the corners    *)
(* may lie anywhere and the lines may be longer than under LineSpec.       *)
(***************************************************************************)
InsertLines == UNION {[1..n -> InsertGrid] : n \in 2..(MaxInsertPoints - 1)}

InsertInit ==
  /\ now = StartMs
  /\ transform \in TransformOffsets
  /\ ev = [type |-> "mount", branch |-> "ok"]
  /\ dispatched = Undefined
  /\ points \in InsertLines
  /\ bounds = boundsFromPoints(points)
  /\ viewportScale \in ViewportScales
  /\ isTouch = FALSE
  /\ visibleMidpoint = Undefined
  /\ isHandleHovered = FALSE
  /\ lastHandleClick = Undefined
  /\ selectedCorners = <<>>
  /\ EllipseIdle

InsertNext ==
  \/ LinePointerMove
  \/ LeaveHandle
  \/ InsertPoint

InsertSpec == InsertInit /\ [][InsertNext]_vars

(***************************************************************************)
(*                     Properties of the ellipse tool                      *)
(***************************************************************************)
\* the image point under the pointer at the last pointermove
cursor == elementToImage(lastMoveEvent)

\* a drawing is in progress and the box was last written by updateShape
Recomputed == origin # Undefined /\ shapeBy.op = "updateShape"

\* C1: while drawing, a box last recomputed by updateShape with Control held
\* has its centre (x + w/2, y + h/2) on the origin, with or without Shift.
C1_CtrlCentred ==
  (Recomputed /\ shapeBy.ctrl) =>
     /\ 2 * x + w = 2 * origin[1]
     /\ 2 * y + h = 2 * origin[2]

\* C1 happens: Control and Shift held, the cursor left of and below the origin
C1_Witness ==
  /\ Recomputed /\ shapeBy.ctrl /\ shapeBy.shift
  /\ cursor[1] < origin[1]
  /\ cursor[2] > origin[2]
  /\ w > 0

\* C2: while drawing, a box last recomputed by updateShape has, with Shift, w = h
\* = the larger of the two extents between origin and cursor, and without Shift
\* w and h equal to the two extents; the extents are doubled with Control.
C2_ShiftSquare ==
  Recomputed =>
    LET k == IF shapeBy.ctrl THEN 2 ELSE 1
        ex == k * Abs(cursor[1] - origin[1])
        ey == k * Abs(cursor[2] - origin[2])
    IN  IF shapeBy.shift
        THEN w = h /\ w >= ex /\ w >= ey /\ w \in {ex, ey}
        ELSE w = ex /\ h = ey

\* C2 happens: Shift held without Control, the two extents differ
C2_Witness ==
  /\ Recomputed /\ shapeBy.shift /\ ~shapeBy.ctrl
  /\ Abs(cursor[1] - origin[1]) > Abs(cursor[2] - origin[2])
  /\ Abs(cursor[2] - origin[2]) > 0

\* C7: in 'drag' mode a pointerup while drawing, at most 300 ms after the
\* pointerdown and with w * h <= 100, cancels the drawing (origin, anchor and
\* lastMoveEvent undefined, nothing dispatched); later than 300 ms or with
\* w * h > 100 it ends the drawing and dispatches 'create' exactly when w * h > 15.
C7_DragRelease ==
  [][(ev'.type = "pointerup" /\ drawingMode = "drag" /\ origin # Undefined
        /\ lastPointerDown # Undefined) =>
       IF now - lastPointerDown[1] <= 300 /\ w * h <= 100
       THEN /\ origin' = Undefined
            /\ anchor' = Undefined
            /\ lastMoveEvent' = Undefined
            /\ dispatched' = Undefined
       ELSE /\ origin' = Undefined
            /\ (dispatched' # Undefined) <=> (w * h > 15)]_vars

\* C7 happens: a box larger than the minimum was cancelled by a quick release
C7_Witness ==
  /\ drawingMode = "drag"
  /\ ev = [type |-> "pointerup", branch |-> "cancel"]
  /\ now - lastPointerDown[1] <= 300
  /\ w * h > 15

\* C9: every ellipse dispatched through 'create' is at least 4 wide and 4 high.
C9_MinSize ==
  dispatched # Undefined =>
    /\ dispatched[1].bounds.maxX - dispatched[1].bounds.minX >= 4
    /\ dispatched[1].bounds.maxY - dispatched[1].bounds.minY >= 4

\* C11: in 'click' mode a pointerdown never starts a drawing; a pointerup more
\* than 300 ms after the pointerdown leaves origin, anchor, x, y, w, h unchanged
\* and dispatches nothing; a pointerup within 300 ms while idle starts a drawing
\* at the click position with w = h = 1; a pointerup within 300 ms while drawing
\* ends it (origin undefined) and dispatches 'create' exactly when w * h > 15.
C11_ClickProtocol ==
  [][drawingMode = "click" =>
       /\ ev'.type = "pointerdown" => UNCHANGED <<origin, anchor, x, y, w, h>>
       /\ \A off \in Offsets :
            (onPointerUp(off) /\ lastPointerDown # Undefined) =>
               IF now - lastPointerDown[1] > 300
               THEN /\ UNCHANGED <<origin, anchor, x, y, w, h>>
                    /\ dispatched' = Undefined
               ELSE IF origin = Undefined
               THEN /\ origin' = <<off[1] + transform, off[2] + transform>>
                    /\ anchor' = origin'
                    /\ x' = origin'[1]
                    /\ y' = origin'[2]
                    /\ w' = 1
                    /\ h' = 1
                    /\ dispatched' = Undefined
               ELSE /\ origin' = Undefined
                    /\ (dispatched' # Undefined) <=> (w * h > 15)]_vars

\* C11 happens: in 'click' mode a second quick click ended a drawing and an
\* ellipse was dispatched
C11_Witness ==
  /\ drawingMode = "click"
  /\ ev = [type |-> "pointerup", branch |-> "stop"]
  /\ lastPointerDown # Undefined
  /\ now - lastPointerDown[1] <= 300
  /\ dispatched # Undefined

\* C12: while drawing, a box last recomputed by updateShape without Control has
\* the origin as one of its four corners, with or without Shift and for every
\* drag direction.
C12_OriginCorner ==
  (Recomputed /\ ~shapeBy.ctrl) =>
     /\ origin[1] \in {x, x + w}
     /\ origin[2] \in {y, y + h}

\* C17: whenever a Shift or Control keydown or keyup arrives while a drawing is
\* in progress, a last pointer-move event is there for updateShape to read.
C17_MoveEventAvailable ==
  [][\A key \in {"Shift", "Control"} :
       ((onKeyDown(key) \/ onKeyUp(key)) /\ origin # Undefined) =>
          lastMoveEvent # Undefined]_vars

(***************************************************************************)
(*                     Properties of the line editor                       *)
(***************************************************************************)
\* b is the bounding box of the points pts
IsBoundingBox(b, pts) ==
  /\ \A i \in DOMAIN pts : /\ b.minX <= pts[i][1] /\ pts[i][1] <= b.maxX
                           /\ b.minY <= pts[i][2] /\ pts[i][2] <= b.maxY
  /\ \E i \in DOMAIN pts : pts[i][1] = b.minX
  /\ \E i \in DOMAIN pts : pts[i][1] = b.maxX
  /\ \E i \in DOMAIN pts : pts[i][2] = b.minY
  /\ \E i \in DOMAIN pts : pts[i][2] = b.maxY

\* C3: the current line and every geometry emitted through 'change' have at
\* least 2 points.
C3_TwoPoints ==
  /\ Len(points) >= 2
  /\ dispatched # Undefined => Len(dispatched[1].points) >= 2

\* C3 happens: Delete was pressed on a 2-point line with one corner selected,
\* and the line kept both points
C3_Witness ==
  /\ ev = [type |-> "keydown", branch |-> "refused"]
  /\ Len(points) = 2
  /\ Len(selectedCorners) = 1

\* C4: a pointerdown on the midpoint handle of segment i emits the old points
\* with one new vertex at index i + 1, the arithmetic midpoint of old vertices i
\* and i + 1; the old vertices are kept in order, and the emitted bounds are the
\* bounding box of the new points.
C4_MidpointInsertion ==
  [][ev'.type = "addpoint" =>
       /\ visibleMidpoint # Undefined
       /\ dispatched' # Undefined
       /\ LET i == visibleMidpoint[1]
              new == dispatched'[1].points
          IN  /\ i >= 0 /\ i + 1 < Len(points)
              /\ Len(new) = Len(points) + 1
              /\ \A k \in 0..i : new[k + 1] = points[k + 1]
              /\ \A k \in (i + 1)..(Len(points) - 1) : new[k + 2] = points[k + 1]
              /\ 2 * new[i + 2][1] = points[i + 1][1] + points[i + 2][1]
              /\ 2 * new[i + 2][2] = points[i + 1][2] + points[i + 2][2]
              /\ IsBoundingBox(dispatched'[1].bounds, new)]_vars

\* C4 happens: a point was inserted in the last segment of a 3-point line, in
\* the middle of the diagonal (32,0)-(0,16)
C4_Witness ==
  /\ ev.type = "addpoint"
  /\ dispatched # Undefined
  /\ dispatched[1].points = <<<<0, 0>>, <<32, 0>>, <<16, 8>>, <<0, 16>>>>

\* a pointerup on a handle counts as a click
IsClick ==
  /\ ~isTouch
  /\ lastHandleClick # Undefined
  /\ lastHandleClick[1] # 0
  /\ now - lastHandleClick[1] <= 250

\* C5: a click on corner idx with a modifier toggles the membership of idx only;
\* without a modifier it selects exactly idx when idx was unselected or one of
\* several selected corners, and nothing when idx was the only selected corner.
C5_MultiSelect ==
  [][\A idx \in 0..(Len(points) - 1), modifier \in BOOLEAN :
       (IsClick /\ onHandlePointerUp(idx, modifier)) =>
          LET old == Range(selectedCorners)
              new == Range(selectedCorners')
          IN  /\ Len(selectedCorners') = Cardinality(new)
              /\ IF modifier
                 THEN new = IF idx \in old THEN old \ {idx} ELSE old \cup {idx}
                 ELSE new = IF idx \notin old \/ Cardinality(old) > 1
                            THEN {idx} ELSE {}]_vars

\* C5 happens: a click has extended the selection to two corners
C5_Witness ==
  /\ ev = [type |-> "handlepointerup", branch |-> "click"]
  /\ Len(selectedCorners) = 2

\* C6: a pointerup on a corner handle changes selectedCorners only if a handle
\* pointerdown is recorded and at most 250 ms have passed since the last one.
C6_ClickTiming ==
  [][ev'.type = "handlepointerup" =>
       (selectedCorners' # selectedCorners =>
          /\ lastHandleClick # Undefined
          /\ now - lastHandleClick[1] <= 250)]_vars

\* C6 happens: a pointerup came later than 250 ms after the pointerdown, with a
\* corner selected
C6_Witness ==
  /\ ev.type = "handlepointerup"
  /\ ~isTouch
  /\ lastHandleClick # Undefined
  /\ now - lastHandleClick[1] > 250
  /\ Len(selectedCorners) = 1

\* C8: on a touch device the midpoint list is empty, visibleMidpoint stays
\* undefined, selectedCorners stays empty and no event changes the number of points.
C8_TouchNoEditing ==
  /\ [](isTouch => /\ midpoints = <<>>
                   /\ visibleMidpoint = Undefined
                   /\ selectedCorners = <<>>)
  /\ [][isTouch => Len(points') = Len(points)]_vars

\* C8 happens: on a touch device a handle was pressed and released within the
\* click threshold
C8_Witness ==
  /\ isTouch
  /\ ev.type = "handlepointerup"
  /\ lastHandleClick # Undefined
  /\ now - lastHandleClick[1] <= 250

\* C13: a drag by delta translates exactly the selected corners when more than
\* one corner is selected, whatever handle is dragged; with at most one corner
\* selected a drag of 'LINE' translates every point and a drag of 'HANDLE-i'
\* translates point i only.  The number and order of the points are kept and the
\* bounds are the bounding box of the new points.
C13_DragEditing ==
  [][\A handle \in Handles, delta \in Deltas :
       (ev'.type = "drag" /\ onDrag(handle, delta)) =>
          LET sel == Range(selectedCorners)
              new == dispatched'[1].points
              translated(i) == IF Cardinality(sel) > 1 THEN i \in sel
                               ELSE IF handle[1] = "LINE" THEN TRUE
                               ELSE handle[2] = i
          IN  /\ points' = new
              /\ Len(new) = Len(points)
              /\ \A i \in 0..(Len(points) - 1) :
                    new[i + 1] = IF translated(i)
                                 THEN <<points[i + 1][1] + delta[1],
                                        points[i + 1][2] + delta[2]>>
                                 ELSE points[i + 1]
              /\ IsBoundingBox(dispatched'[1].bounds, new)
              /\ bounds' = dispatched'[1].bounds]_vars

\* C13 happens: a drag moved two selected corners of a 3-point line and left
\* the third where it was
C13_Witness ==
  /\ ev.type = "drag"
  /\ Len(points) = 3
  /\ Len(selectedCorners) = 2
  /\ dispatched # Undefined
  /\ points = dispatched[1].points
  /\ \E i \in 1..3 : i - 1 \notin Range(selectedCorners) /\ points[i] # points[1] /\ points[i] # points[3]

\* C14: when the key handler runs for Delete or Backspace and removing the
\* selected corners would leave fewer than 2 points, nothing is dispatched and
\* points and selectedCorners stay as they are; otherwise the emitted points are
\* the points at the unselected indices in their original order and
\* selectedCorners becomes empty.
C14_DeleteSelected ==
  [][\A key \in {"Delete", "Backspace"} :
       (ev'.type = "keydown" /\ ~isTouch /\ onKeydown(key)) =>
          LET kept == {i \in 0..(Len(points) - 1) : i \notin Range(selectedCorners)}
              \* the k-th unselected index, counting from 1
              nth(k) == CHOOSE i \in kept : Cardinality({j \in kept : j < i}) = k - 1
          IN  IF Cardinality(kept) < 2
              THEN /\ dispatched' = Undefined
                   /\ points' = points
                   /\ selectedCorners' = selectedCorners
              ELSE /\ dispatched' # Undefined
                   /\ Len(dispatched'[1].points) = Cardinality(kept)
                   /\ \A k \in 1..Cardinality(kept) :
                         dispatched'[1].points[k] = points[nth(k) + 1]
                   /\ selectedCorners' = <<>>]_vars

\* C14 happens: Delete removed a corner of a 3-point line (the midpoint of its
\* second segment was the last one hovered)
C14_Witness ==
  /\ ev = [type |-> "keydown", branch |-> "deleted"]
  /\ dispatched # Undefined
  /\ Len(dispatched[1].points) = 2
  /\ visibleMidpoint = <<1>>
  /\ selectedCorners = <<>>

\* C15: after a pointer move with no corner selected and a visible midpoint,
\* visibleMidpoint is the index of the visible midpoint nearest to the pointer
\* (the lowest index on ties) if the pointer is nearer than MIN_HOVER_DISTANCE /
\* viewportScale to the nearest corner or to that midpoint, and undefined
\* otherwise; with a corner selected or no visible midpoint it is undefined.  A
\* midpoint whose visible flag is false is never chosen.
C15_HitTesting ==
  [][\A off \in PointerPositions :
       (ev'.type = "pointermove" /\ onLinePointerMove(off)) =>
          LET px == off[1] + transform
              py == off[2] + transform
              vis == {i \in 0..(Len(midpoints) - 1) : midpoints[i + 1].visible}
              \* four times the squared distance from the pointer to corner i and
              \* to the midpoint of segment i
              cornerD(i) == 4 * ((points[i + 1][1] - px) * (points[i + 1][1] - px)
                                 + (points[i + 1][2] - py) * (points[i + 1][2] - py))
              midD(i) == (points[i + 1][1] + points[i + 2][1] - 2 * px)
                           * (points[i + 1][1] + points[i + 2][1] - 2 * px)
                         + (points[i + 1][2] + points[i + 2][2] - 2 * py)
                           * (points[i + 1][2] + points[i + 2][2] - 2 * py)
              limit == 4 * 1000 * 1000
              nearest == CHOOSE i \in vis :
                           /\ \A j \in vis : midD(i) <= midD(j)
                           /\ \A j \in vis : midD(j) = midD(i) => i <= j
              near == \/ \E i \in 0..(Len(points) - 1) :
                           cornerD(i) * viewportScale * viewportScale < limit
                      \/ midD(nearest) * viewportScale * viewportScale < limit
          IN  /\ IF selectedCorners # <<>> \/ vis = {}
                 THEN visibleMidpoint' = Undefined
                 ELSE IF near THEN visibleMidpoint' = <<nearest>>
                      ELSE visibleMidpoint' = Undefined
              /\ visibleMidpoint' # Undefined => visibleMidpoint'[1] \in vis]_vars

\* C15 happens: both midpoints of a 3-point line are visible and a pointer move
\* picked the second one
C15_Witness ==
  /\ ev = [type |-> "pointermove", branch |-> "ok"]
  /\ Len(points) = 3
  /\ \A i \in DOMAIN midpoints : midpoints[i].visible
  /\ visibleMidpoint = <<1>>
  /\ selectedCorners = <<>>

\* C16: in every reachable state a defined visibleMidpoint is an index into the
\* current midpoint list: 0 <= visibleMidpoint < points.length - 1.
C16_ValidMidpoint ==
  visibleMidpoint # Undefined =>
    /\ 0 <= visibleMidpoint[1]
    /\ visibleMidpoint[1] < Len(points) - 1

\* C10: the midpoint of a segment is visible exactly when the distance between
\* the segment's two corners is greater than MIN_CORNER_DISTANCE / viewportScale.
C10_CornerDistance ==
  \A i \in DOMAIN midpoints :
    LET dx == points[i + 1][1] - points[i][1]
        dy == points[i + 1][2] - points[i][2]
    IN  midpoints[i].visible <=>
          (dx * dx + dy * dy) * viewportScale * viewportScale > 12 * 12

====
